---- MODULE Spec2Model ----
(***************************************************************************)
(* A model of the source discovery (mypy/find_sources.py) and of the       *)
(* stub-into-source merge (mypy/stub_src_merge.py).                        *)
(*                                                                         *)
(* Strings are sequences of one-character strings, so that splitext,       *)
(* endswith, isidentifier, rstrip and the sort key are computed; a path is *)
(* the sequence of its components (the empty sequence is the path '', the  *)
(* current directory of a relative argument).  An optional value is the    *)
(* empty sequence (None) or a one-element sequence.                        *)
(***************************************************************************)
EXTENDS Integers, Sequences, FiniteSets, TLC

VARIABLES
    files,          \* the file paths on disk
    args,           \* create_source_list's `files` argument
    options,        \* merge_stub_into_src, scripts_are_modules, allow_empty_dir
    phase,          \* "init" before the call, "done" after it, "none" when no discovery runs
    outcome,        \* "none" | "returned" | "raised" | "hang"
    reason,         \* which InvalidSourceList was raised
    targets,        \* the local list `targets` when the call ended
    package_cache,  \* SourceFinder.package_cache when the call ended
    resolved,       \* directories whose basename crawl_up_dir validated or rejected
    tree,           \* the statements of the source and the stub module given to MergeFiles
    heap,           \* the nodes of both trees, by id
    errors,         \* the Errors sink: its current file and the reported errors
    _line,          \* MergeFiles._line
    _column,        \* MergeFiles._column
    merge_outcome,  \* "none" | "constructed" | "returned" | the exception run() raised
    about,          \* history: for every reported error, the merge_nodes pair it came from
    calls,          \* history: the finished merge_nodes calls
    ended,          \* history: the number of reported errors at the end of every run
    instances,      \* the MergeFiles objects that share the sink, by module pair
    owner,          \* history: for every reported error, the instance that reported it
    workers,        \* the resolvers that share package_cache: their crawl_up_dir frames
    written         \* history: every <<dir, value>> stored into package_cache

fvars == <<files, args, options, phase, outcome, reason, targets, package_cache, resolved>>

mvars == <<tree, heap, errors, _line, _column, merge_outcome, about, calls, ended,
           instances, owner>>

\* The resolvers that run crawl_up_dir step by step on one package_cache.
cvars == <<workers, written>>

vars == <<fvars, mvars, cvars>>

----------------------------------------------------------------------------
(* Strings *)

None == <<>>
Some(x) == <<x>>

\* F applied to a value computed once.
Bind(v, F(_)) == F(v)

Dot == <<".">>

Letters == {"a", "b", "c", "d", "e", "g", "h", "i", "k", "n", "p", "r", "t", "u", "x", "y"}
Digits == {"0", "1"}

\* The characters of the model's names, in code point order.
Alphabet == <<"-", ".", "0", "1", "_", "a", "b", "c", "d", "e", "g", "h", "i",
              "k", "n", "p", "r", "t", "u", "x", "y", "~">>

Ord(c) == CHOOSE i \in 1..Len(Alphabet) : Alphabet[i] = c

EndsWith(s, suf) ==
    /\ Len(s) >= Len(suf)
    /\ SubSeq(s, Len(s) - Len(suf) + 1, Len(s)) = suf

StartsWith(s, pre) ==
    /\ Len(s) >= Len(pre)
    /\ SubSeq(s, 1, Len(pre)) = pre

Contains(s, c) == \E i \in 1..Len(s) : s[i] = c

\* str.__lt__: the first differing character decides, a proper prefix is smaller.
StrLess(s, t) ==
    \/ \E i \in 1..Len(s) :
          /\ i <= Len(t)
          /\ SubSeq(s, 1, i - 1) = SubSeq(t, 1, i - 1)
          /\ Ord(s[i]) < Ord(t[i])
    \/ Len(s) < Len(t) /\ SubSeq(t, 1, Len(s)) = s

IsIdentifier(s) ==
    /\ Len(s) > 0
    /\ s[1] \in Letters \cup {"_"}
    /\ \A i \in 1..Len(s) : s[i] \in Letters \cup Digits \cup {"_"}

RStripDot_Keep(s) == s

RECURSIVE RStripDot(_)
RStripDot(s) ==
    IF Len(s) > 0 /\ s[Len(s)] = "." THEN RStripDot(SubSeq(s, 1, Len(s) - 1)) ELSE s

\* The components of a dotted string: "a.b" gives <<"a", "b">>, "" gives <<"">>.
RECURSIVE SplitDots(_)
SplitDots(s) ==
    IF ~Contains(s, ".") THEN <<s>>
    ELSE LET i == CHOOSE k \in 1..Len(s) :
                      s[k] = "." /\ \A j \in 1..(k - 1) : s[j] # "."
         IN  <<SubSeq(s, 1, i - 1)>> \o SplitDots(SubSeq(s, i + 1, Len(s)))

pyExt == <<".", "p", "y">>
pyiExt == <<".", "p", "y", "i">>

PY_EXTENSIONS == <<pyiExt, pyExt>>

ExtSet == {PY_EXTENSIONS[i] : i \in 1..Len(PY_EXTENSIONS)}

\* PY_MAP.get(suffix, -1)
PyRank(suffix) ==
    IF suffix \in ExtSet
    THEN (CHOOSE i \in 1..Len(PY_EXTENSIONS) : PY_EXTENSIONS[i] = suffix) - 1
    ELSE -1

\* os.path.splitext on one path component: the last dot splits, unless only
\* dots precede it.
Splitext(name) ==
    LET dots == {i \in 1..Len(name) : name[i] = "."}
    IN  IF dots = {} THEN [base |-> name, ext |-> <<>>]
        ELSE LET d == CHOOSE i \in dots : \A j \in dots : j <= i
             IN  IF \E j \in 1..(d - 1) : name[j] # "."
                 THEN [base |-> SubSeq(name, 1, d - 1), ext |-> SubSeq(name, d, Len(name))]
                 ELSE [base |-> name, ext |-> <<>>]

keyfunc(name) ==
    LET s == Splitext(name) IN <<s.base, PyRank(s.ext)>>

KeyLess(k1, k2) ==
    \/ StrLess(k1[1], k2[1])
    \/ k1[1] = k2[1] /\ k1[2] < k2[2]

module_join_NoDot(parent, child) == parent \o child

module_join(parent, child) ==
    IF parent # <<>> THEN parent \o Dot \o child ELSE child

\* strip_py: None, or the name without its .pyi or .py suffix.
strip_py(arg) ==
    IF EndsWith(arg, pyiExt) THEN Some(SubSeq(arg, 1, Len(arg) - Len(pyiExt)))
    ELSE IF EndsWith(arg, pyExt) THEN Some(SubSeq(arg, 1, Len(arg) - Len(pyExt)))
    ELSE None

----------------------------------------------------------------------------
(* Names and paths *)

nAPy == <<"a", ".", "p", "y">>
nAPyi == <<"a", ".", "p", "y", "i">>
nInit == <<"_", "_", "i", "n", "i", "t", "_", "_">>
nInitPy == nInit \o pyExt
nInitPyi == nInit \o pyiExt
nPkg == <<"p", "k", "g">>
nPkgPy == nPkg \o pyExt
nBadPkg == <<"b", "-", "1">>
nBadPy == <<"x", "-", "y", ".", "p", "y">>
nDottedPy == <<"a", ".", "b", ".", "p", "y">>
nScript == <<"r", "-", "n">>
nPyTyped == <<"p", "y", ".", "t", "y", "p", "e", "d">>
nPycache == <<"_", "_", "p", "y", "c", "a", "c", "h", "e", "_", "_">>

\* os.path.split
SplitHead(p) == IF p = <<>> THEN <<>> ELSE SubSeq(p, 1, Len(p) - 1)
SplitTail(p) == IF p = <<>> THEN <<>> ELSE p[Len(p)]

\* os.path.join(dir, name)
Join(dir, name) == Append(dir, name)

\* os.path.splitext on a path: it splits the last component.
PathSplitext(p) ==
    LET s == Splitext(SplitTail(p))
    IN  [base |-> Join(SplitHead(p), s.base), ext |-> s.ext]

\* base + ".pyi" for the base of PathSplitext
WithSuffix(base, suffix) == Join(SplitHead(base), SplitTail(base) \o suffix)

----------------------------------------------------------------------------
(* The file system behind FileSystemCache and os.path *)

IsFile(p) == p \in files

IsDir(p) ==
    /\ p # <<>>
    /\ \E f \in files : Len(f) > Len(p) /\ SubSeq(f, 1, Len(p)) = p

Exists(p) == IsFile(p) \/ IsDir(p)

ListDir(dir) ==
    {f[Len(dir) + 1] : f \in {g \in files : Len(g) > Len(dir) /\ SubSeq(g, 1, Len(dir)) = dir}}

\* options.package_root is empty, so the namespace-package query answers False.
InitUnderPackageRoot(f) == FALSE

\* names.sort(key=keyfunc): the listing in key order (no two names of the model's
\* listings have the same key, so the order os.listdir gave them does not matter).
RECURSIVE SortedFrom(_)
SortedFrom(names) ==
    IF names = {} THEN <<>>
    ELSE LET least == CHOOSE n \in names :
                         \A m \in names : ~KeyLess(keyfunc(m), keyfunc(n))
         IN  <<least>> \o SortedFrom(names \ {least})

----------------------------------------------------------------------------
(* Module Identity Resolver: SourceFinder.get_init_file, crawl_up_dir, crawl_up *)

BuildSource(path, module, base_dir, merge_with) ==
    [path |-> path, module |-> module, base_dir |-> base_dir, merge_with |-> merge_with]

EmptyCache == [d \in {} |-> <<>>]

\* None, or the path of the directory's __init__.pyi or __init__.py (in this order).
get_init_file(dir) ==
    IF IsFile(Join(dir, nInit \o PY_EXTENSIONS[1])) THEN Some(Join(dir, nInit \o PY_EXTENSIONS[1]))
    ELSE IF PY_EXTENSIONS[1] = pyExt /\ InitUnderPackageRoot(Join(dir, nInit \o PY_EXTENSIONS[1]))
         THEN Some(Join(dir, nInit \o PY_EXTENSIONS[1]))
    ELSE IF IsFile(Join(dir, nInit \o PY_EXTENSIONS[2])) THEN Some(Join(dir, nInit \o PY_EXTENSIONS[2]))
    ELSE IF PY_EXTENSIONS[2] = pyExt /\ InitUnderPackageRoot(Join(dir, nInit \o PY_EXTENSIONS[2]))
         THEN Some(Join(dir, nInit \o PY_EXTENSIONS[2]))
    ELSE None

\* "Ensure that base is a valid python module name"
ValidPackageName_Any(base) == TRUE

ValidPackageName(base) == IsIdentifier(base)

\* [ok, res, base_dir, cache, checked]: ok is FALSE when InvalidSourceList is
\* raised; checked holds the directories whose basename reached isidentifier().
RECURSIVE crawl_up_dir(_, _)
crawl_up_dir(dir, cache) ==
    IF dir \in DOMAIN cache
    THEN [ok |-> TRUE, res |-> cache[dir][1], base_dir |-> cache[dir][2],
          cache |-> cache, checked |-> {}]
    ELSE
      LET parent_dir == SplitHead(dir)
          base == SplitTail(dir)
      IN  IF dir = <<>> \/ get_init_file(dir) = None \/ base = <<>>
          THEN LET bd == IF dir # <<>> THEN dir ELSE <<Dot>>
               IN  [ok |-> TRUE, res |-> <<>>, base_dir |-> bd,
                    cache |-> (dir :> <<(<<>>), bd>>) @@ cache, checked |-> {}]
          ELSE IF ~ValidPackageName(base)
          THEN [ok |-> FALSE, res |-> <<>>, base_dir |-> <<>>,
                cache |-> cache, checked |-> {dir}]
          ELSE Bind(crawl_up_dir(parent_dir, cache), LAMBDA up :
                   IF ~up.ok
                   THEN [up EXCEPT !.checked = @ \cup {dir}]
                   ELSE [ok |-> TRUE, res |-> module_join(up.res, base),
                         base_dir |-> up.base_dir,
                         cache |-> (dir :> <<module_join(up.res, base), up.base_dir>>)
                                      @@ up.cache,
                         checked |-> up.checked \cup {dir}])

\* [ok, mod, base_dir, cache, checked]
crawl_up(arg, cache) ==
    LET dir == SplitHead(arg)
        tail == SplitTail(arg)
        stripped == strip_py(tail)
        mod == IF stripped # None /\ stripped[1] # <<>> THEN stripped[1] ELSE tail
    IN  Bind(crawl_up_dir(dir, cache), LAMBDA up :
          [ok |-> up.ok,
           mod |-> IF mod = nInit \/ mod = <<>> THEN up.res ELSE module_join(up.res, mod),
           base_dir |-> up.base_dir, cache |-> up.cache, checked |-> up.checked])

----------------------------------------------------------------------------
(* Source Finder: SourceFinder.expand_dir *)

\* The names expand_dir skips altogether.
Skipped(name) ==
    \/ name = nPycache
    \/ name = nPyTyped
    \/ StartsWith(name, Dot)
    \/ EndsWith(name, <<"~">>)
    \/ EndsWith(name, <<".", "p", "y", "c">>)
    \/ EndsWith(name, <<".", "p", "y", "o">>)

\* Whether a file name that is no marker file gives a unit: its base is new, has
\* no dot, and its suffix is a Python extension.
Eligible_NoDedupe(s, seen) == ~Contains(s.base, ".") /\ s.ext \in ExtSet

Eligible(s, seen) == s.base \notin seen /\ ~Contains(s.base, ".") /\ s.ext \in ExtSet

\* The unit of a recognized file at position i of the sorted listing: the file
\* alone, or, with merging on and a following name of the same base, the following
\* file with this one as merge_with.
FileSource_Swapped(arg, names, i, mod_prefix, base_dir, merge) ==
    LET base == Splitext(names[i]).base
        src == BuildSource(Join(arg, names[i]), Some(mod_prefix \o base), Some(base_dir), None)
    IN  IF merge /\ i < Len(names) /\ Splitext(names[i + 1]).base = base
        THEN [src EXCEPT !.merge_with =
                 Some(BuildSource(Join(arg, names[i + 1]),
                                  Some(mod_prefix \o Splitext(names[i + 1]).base),
                                  Some(base_dir), None))]
        ELSE src

FileSource(arg, names, i, mod_prefix, base_dir, merge) ==
    LET base == Splitext(names[i]).base
        src == BuildSource(Join(arg, names[i]), Some(mod_prefix \o base), Some(base_dir), None)
    IN  IF merge /\ i < Len(names) /\ Splitext(names[i + 1]).base = base
        THEN BuildSource(Join(arg, names[i + 1]),
                         Some(mod_prefix \o Splitext(names[i + 1]).base),
                         Some(base_dir), Some(src))
        ELSE src

\* expand_dir and its loop over the sorted listing; both give
\* [status, sources, cache, checked], status "ok" (sources returned), "raise"
\* (InvalidSourceList propagates) or "hang" (the loop never ends).
RECURSIVE expand_dir(_, _, _, _)
RECURSIVE ExpandLoop(_, _, _, _, _, _, _, _, _, _)

\* The while loop of expand_dir with `name` at position i of names (None past
\* the end).
ExpandLoop(arg, names, i, seen, sources, cache, checked, mod_prefix, base_dir, merge) ==
    IF i > Len(names)
    THEN [status |-> "ok", sources |-> sources, cache |-> cache, checked |-> checked]
    ELSE
      LET name == names[i]
          path == Join(arg, name)
      IN  IF Skipped(name)
          THEN \* `continue` without advancing name: the same name is tested for ever
               [status |-> "hang", sources |-> sources, cache |-> cache, checked |-> checked]
          ELSE IF IsDir(path)
          THEN Bind(expand_dir(path, mod_prefix \o name \o Dot, cache, merge), LAMBDA sub :
                   IF sub.status # "ok"
                   THEN [status |-> sub.status, sources |-> sources, cache |-> sub.cache,
                         checked |-> checked \cup sub.checked]
                   ELSE \* next(name_iter) past the end raises StopIteration, which
                        \* returns sources, as the loop's end does
                        ExpandLoop(arg, names, i + 1,
                                   IF sub.sources # <<>> THEN seen \cup {name} ELSE seen,
                                   sources \o sub.sources, sub.cache,
                                   checked \cup sub.checked, mod_prefix, base_dir, merge))
          ELSE LET s == Splitext(name)
               IN  IF s.base = nInit
                   THEN ExpandLoop(arg, names, i + 1, seen, sources, cache, checked,
                                   mod_prefix, base_dir, merge)
                   ELSE IF Eligible(s, seen)
                   THEN ExpandLoop(arg, names, i + 1, seen \cup {s.base},
                                   Append(sources,
                                          FileSource(arg, names, i, mod_prefix, base_dir, merge)),
                                   cache, checked, mod_prefix, base_dir, merge)
                   ELSE ExpandLoop(arg, names, i + 1, seen, sources, cache, checked,
                                   mod_prefix, base_dir, merge)

expand_dir(arg, mod_prefix, cache, merge) ==
    LET f == get_init_file(arg)
    IN  IF mod_prefix # <<>> /\ f = None
        THEN [status |-> "ok", sources |-> <<>>, cache |-> cache, checked |-> {}]
        ELSE
          Bind(crawl_up_dir(arg, cache), LAMBDA top :
              IF ~top.ok
              THEN [status |-> "raise", sources |-> <<>>, cache |-> top.cache,
                    checked |-> top.checked]
              ELSE
                LET prefix == IF f # None /\ mod_prefix = <<>>
                              THEN top.res \o Dot ELSE mod_prefix
                    first == IF prefix # <<>>
                             THEN <<BuildSource(f[1], Some(RStripDot(prefix)),
                                                Some(top.base_dir), None)>>
                             ELSE <<>>
                IN  ExpandLoop(arg, SortedFrom(ListDir(arg)), 1, {}, first, top.cache,
                               top.checked, prefix, top.base_dir, merge))

----------------------------------------------------------------------------
(* Source Finder: create_source_list *)

IsStubPath(v) == v # <<>> /\ EndsWith(SplitTail(v), pyiExt)
IsOtherPath(v) == ~IsStubPath(v)

\* partition(pred, iterable): the false entries, then the true entries, each in
\* the iterable's order.
partition(iterable) == <<SelectSeq(iterable, IsOtherPath), SelectSeq(iterable, IsStubPath)>>

\* One pass of the for loop of create_source_list over source_then_stubs[i..];
\* st is [targets, found, cache, checked, status, reason].
RECURSIVE SourceLoop(_, _, _, _)
SourceLoop(fs, i, st, opts) ==
    IF i > Len(fs) THEN [st EXCEPT !.status = "returned"]
    ELSE
      LET f == fs[i]
          se == PathSplitext(f)
          found == st.found \cup {f}
      IN  IF f \in st.found THEN SourceLoop(fs, i + 1, st, opts)
          ELSE IF se.ext \in ExtSet
          THEN Bind(crawl_up(f, st.cache), LAMBDA up :
               LET stub_file == WithSuffix(se.base, pyiExt)
                   paired == opts.merge_stub_into_src /\ se.ext = pyExt /\ Exists(stub_file)
                   merge_stub == IF paired
                                 THEN Some(BuildSource(stub_file, Some(up.mod),
                                                       Some(up.base_dir), None))
                                 ELSE None
               IN  IF ~up.ok
                   THEN [st EXCEPT !.found = found, !.cache = up.cache,
                                   !.checked = @ \cup up.checked,
                                   !.status = "raised", !.reason = "invalid package name"]
                   ELSE SourceLoop(fs, i + 1,
                          [st EXCEPT !.found = IF paired THEN found \cup {stub_file} ELSE found,
                                     !.cache = up.cache,
                                     !.checked = @ \cup up.checked,
                                     !.targets = Append(@, BuildSource(f, Some(up.mod),
                                                           Some(up.base_dir), merge_stub))],
                          opts))
          ELSE IF IsDir(f)
          THEN Bind(expand_dir(f, <<>>, st.cache, opts.merge_stub_into_src), LAMBDA sub :
               LET st1 == [st EXCEPT !.found = found, !.cache = sub.cache,
                                     !.checked = @ \cup sub.checked]
               IN  IF sub.status = "raise"
                   THEN [st1 EXCEPT !.status = "raised", !.reason = "invalid package name"]
                   ELSE IF sub.status = "hang"
                   THEN [st1 EXCEPT !.status = "hang"]
                   ELSE IF sub.sources = <<>> /\ ~opts.allow_empty_dir
                   THEN [st1 EXCEPT !.status = "raised", !.reason = "no files in directory"]
                   ELSE SourceLoop(fs, i + 1, [st1 EXCEPT !.targets = @ \o sub.sources], opts))
          ELSE LET mod == IF opts.scripts_are_modules THEN Some(SplitTail(f)) ELSE None
               IN  SourceLoop(fs, i + 1,
                              [st EXCEPT !.found = found,
                                         !.targets = Append(@, BuildSource(f, mod, None, None))],
                              opts)

source_then_stubs_Unpartitioned(fs) == fs

source_then_stubs_StubsFirst(fs) == partition(fs)[2] \o partition(fs)[1]

source_then_stubs(fs) == partition(fs)[1] \o partition(fs)[2]

create_source_list(fs, opts) ==
    SourceLoop(source_then_stubs(fs), 1,
               [targets |-> <<>>, found |-> {}, cache |-> EmptyCache, checked |-> {},
                status |-> "none", reason |-> "none"],
               opts)

----------------------------------------------------------------------------
(* The merge of a stub tree into a source tree (mypy/stub_src_merge.py)     *)
(*                                                                         *)
(* A node is a record in `heap`, named by its id; a symbol table and a      *)
(* dict are sequences of <<key, value>> pairs in insertion order.  The      *)
(* engine state m carries the heap, the Errors sink, MergeFiles._line and   *)
(* _column, and whether an exception is propagating (status, exc).  Three   *)
(* history fields serve the properties: cur is the pair of the              *)
(* innermost merge_nodes call, about[k] the value of cur when               *)
(* error_info[k] was reported, calls the finished merge_nodes calls.        *)

DictHas(d, k) == \E i \in 1..Len(d) : d[i][1] = k

DictGet(d, k) == d[CHOOSE i \in 1..Len(d) : d[i][1] = k][2]

DictSet(d, k, v) ==
    IF DictHas(d, k)
    THEN [i \in 1..Len(d) |-> IF d[i][1] = k THEN <<k, v>> ELSE d[i]]
    ELSE Append(d, <<k, v>>)

\* A dict that keeps the entry.
DictDel_Keep(d, k) == d

DictDel(d, k) == SelectSeq(d, LAMBDA e : e[1] # k)

Raise(m, exception) == [m EXCEPT !.status = "raised", !.exc = exception]

\* Optional fields of a node: the signature merge_nodes may overwrite.
Field(node, f) == IF f \in DOMAIN node THEN node[f] ELSE None

Signature(node) ==
    [type |-> Field(node, "type"),
     unanalyzed_type |-> Field(node, "unanalyzed_type"),
     arg_kinds |-> Field(node, "arg_kinds")]

\* The signature of a decorated function is that of the function it wraps.
SignatureAt(nodes, id) ==
    IF nodes[id].kind = "Decorator" THEN Signature(nodes[nodes[id].func])
    ELSE Signature(nodes[id])

\* A sink that drops an error it already holds.
report_Once(m, msg, line, column) ==
    LET l == IF line = None THEN m._line ELSE line[1]
        c == IF column = None THEN m._column ELSE column[1]
        info == [file |-> m.errors.file, line |-> l, column |-> c, message |-> msg]
    IN  IF \E k \in 1..Len(m.errors.error_info) : m.errors.error_info[k] = info
        THEN m
        ELSE [m EXCEPT !.errors.error_info = Append(@, info),
                       !.about = Append(@, m.cur)]

report(m, msg, line, column) ==
    LET l == IF line = None THEN m._line ELSE line[1]
        c == IF column = None THEN m._column ELSE column[1]
    IN  [m EXCEPT !.errors.error_info =
                      Append(@, [file |-> m.errors.file, line |-> l, column |-> c,
                                 message |-> msg]),
                  !.about = Append(@, m.cur)]

Message(text, names, stub_line) == [text |-> text, names |-> names, stub_line |-> stub_line]

NoLine == 0 - 1

\* Returns the engine state and the name (None when there is no simple name).
simple_assignment_name(m, node, l_value_type, do_report) ==
    IF Len(node.lvalues) = 1
    THEN LET l_value == node.lvalues[1] IN
         IF l_value.kind = l_value_type
         THEN [m |-> m, name |-> Some(l_value.name)]
         ELSE IF do_report
              THEN [m |-> report(m, Message("l-values must be simple name expressions",
                                            <<l_value.kind>>, NoLine), None, None),
                    name |-> None]
              ELSE [m |-> m, name |-> None]
    ELSE IF do_report
         THEN [m |-> report(m, Message("assignment has more than one l-values", <<>>, NoLine),
                            None, None),
               name |-> None]
         ELSE [m |-> m, name |-> None]

NameText(name) == IF name = None THEN "None" ELSE name[1]

\* node_kind is the kind of the statement or call the default belongs to.
check_no_explicit_default(m, default_node, node_kind, name) ==
    IF node_kind # "TempNode" /\ default_node # "EllipsisExpr"
    THEN report(m, Message("stub should not contain default value",
                           <<NameText(name), default_node>>, NoLine), None, None)
    ELSE m

\* Returns the engine state and whether the names match.
decorator_name_check(m, src, stub) ==
    IF src.name # stub.name
    THEN [m |-> report(m, Message("conflict of src and stub decorator name",
                                  <<src.name, stub.name>>, NoLine), None, None),
          ok |-> FALSE]
    ELSE [m |-> m, ok |-> TRUE]

\* itertools.zip_longest fills the shorter list with None.
ZipLongestAt(s, i) == IF i <= Len(s) THEN Some(s[i]) ELSE None

Longest(s, t) == IF Len(s) >= Len(t) THEN Len(s) ELSE Len(t)

Shortest(s, t) == IF Len(s) <= Len(t) THEN Len(s) ELSE Len(t)

RECURSIVE DefaultsLoop(_, _, _, _)
DefaultsLoop(m, src, stub, i) ==
    IF i > Shortest(stub.arg_names, stub.args) THEN m
    ELSE DefaultsLoop(check_no_explicit_default(m, stub.args[i], src.kind,
                                                Some(stub.arg_names[i])),
                      src, stub, i + 1)

decorator_argument_checks(m, src, stub) ==
    LET differ == {i \in 1..Longest(src.arg_names, stub.arg_names) :
                      ZipLongestAt(src.arg_names, i) # ZipLongestAt(stub.arg_names, i)}
        first == CHOOSE i \in differ : \A j \in differ : i <= j
        m1 == IF differ = {} THEN m
              ELSE report(m, Message("conflict of src and stub decorator argument name",
                                     <<NameText(ZipLongestAt(src.arg_names, first)),
                                       NameText(ZipLongestAt(stub.arg_names, first))>>,
                                     NoLine),
                          Some(src.line), None)
    IN  DefaultsLoop(m1, src, stub, 1)

merge_variables(m, s, t) == [m EXCEPT !.heap[s].type = m.heap[t].type]

merge_assignment(m, s, t) ==
    LET stub == m.heap[t]
        copied == [m EXCEPT !.heap[s].type = stub.type,
                            !.heap[s].unanalyzed_type = stub.unanalyzed_type]
    IN  Bind(simple_assignment_name(copied, stub, "NameExpr", TRUE),
             LAMBDA n : check_no_explicit_default(n.m, stub.rvalue, stub.kind, n.name))

merge_func_definition(m, s, t) ==
    LET src == m.heap[s]
        stub == m.heap[t]
    IN  IF src.arg_names = stub.arg_names
        THEN [m EXCEPT !.heap[s].type = stub.type,
                       !.heap[s].arg_kinds = stub.arg_kinds,
                       !.heap[s].unanalyzed_type = stub.unanalyzed_type]
        ELSE report(m, Message("arg conflict of src and stub",
                               src.arg_names \o <<"|">> \o stub.arg_names, stub.line),
                    None, None)

RECURSIVE merge_nodes(_, _, _)

\* The loop of merge_symbol_tables over stub.items(); src is the node that owns
\* the table written to.
RECURSIVE SymbolLoop(_, _, _, _)
SymbolLoop(m, src, items, i) ==
    IF i > Len(items) \/ m.status # "ok" THEN m
    ELSE LET stub_symbol_name == items[i][1]
             stub_symbol == items[i][2]
             names == m.heap[src].names
         IN  IF ~DictHas(names, stub_symbol_name)
             THEN SymbolLoop([m EXCEPT !.heap[src].names =
                                           DictSet(@, stub_symbol_name, stub_symbol)],
                             src, items, i + 1)
             ELSE IF DictGet(names, stub_symbol_name) # stub_symbol
                  THEN SymbolLoop(merge_nodes(m, DictGet(names, stub_symbol_name), stub_symbol),
                                  src, items, i + 1)
                  ELSE SymbolLoop(m, src, items, i + 1)

\* A merge that leaves the source table as it is.
merge_symbol_tables_Skip(m, src, stub) == m

merge_symbol_tables(m, src, stub) == SymbolLoop(m, src, m.heap[stub].names, 1)

\* The class-body walk works on r: the engine state and the two local dicts.
RECURSIVE CollectLoop(_, _, _)
CollectLoop(r, body, i) ==
    IF i > Len(body) THEN r
    ELSE LET entry == r.m.heap[body[i]] IN
         CASE entry.kind = "AssignmentStmt" ->
                  Bind(simple_assignment_name(r.m, entry, "NameExpr", TRUE),
                       LAMBDA n :
                           CollectLoop([m |-> n.m,
                                        stub_assigns |->
                                            IF n.name # None
                                            THEN DictSet(r.stub_assigns, n.name[1], body[i])
                                            ELSE r.stub_assigns,
                                        stub_funcs |-> r.stub_funcs],
                                       body, i + 1))
           [] entry.kind = "Decorator" ->
                  CollectLoop([r EXCEPT !.stub_funcs =
                                            DictSet(@, r.m.heap[entry.func].name, body[i])],
                              body, i + 1)
           [] entry.kind = "FuncDef" ->
                  CollectLoop([r EXCEPT !.stub_funcs = DictSet(@, entry.name, body[i])],
                              body, i + 1)
           [] OTHER -> CollectLoop(r, body, i + 1)

collect_assign_and_funcs(m, body) ==
    CollectLoop([m |-> m, stub_assigns |-> <<>>, stub_funcs |-> <<>>], body, 1)

enrich_src_assign_from_stub(r, src_assign) ==
    LET n == simple_assignment_name(r.m, r.m.heap[src_assign], "MemberExpr", FALSE) IN
    IF n.name # None
    THEN IF DictHas(r.stub_assigns, n.name[1])
         THEN LET stub == r.m.heap[DictGet(r.stub_assigns, n.name[1])] IN
              [r EXCEPT !.m.heap[src_assign].type = stub.type,
                        !.m.heap[src_assign].unanalyzed_type = stub.unanalyzed_type,
                        !.stub_assigns = DictDel(@, n.name[1])]
         ELSE [r EXCEPT !.m = report(r.m, Message("no stub definition for class member",
                                                  <<n.name[1]>>, NoLine), None, None)]
    ELSE r

\* The assignments of one `if` statement: every block of init_part.body in turn.
RECURSIVE Flatten(_)
Flatten(blocks) == IF blocks = <<>> THEN <<>> ELSE Head(blocks) \o Flatten(Tail(blocks))

RECURSIVE EnrichLoop(_, _, _)
EnrichLoop(r, parts, i) ==
    IF i > Len(parts) THEN r
    ELSE EnrichLoop(enrich_src_assign_from_stub(r, parts[i]), parts, i + 1)

\* The assignments the walk of the constructor body visits, in order: the direct
\* ones and those directly in a block of an `if` statement.
InitParts(r, parts) ==
    LET Direct(p) == IF r.m.heap[p].kind = "IfStmt"
                     THEN SelectSeq(Flatten(r.m.heap[p].body),
                                    LAMBDA q : r.m.heap[q].kind = "AssignmentStmt")
                     ELSE IF r.m.heap[p].kind = "AssignmentStmt" THEN <<p>> ELSE <<>>
    IN  Flatten([k \in 1..Len(parts) |-> Direct(parts[k])])

merge_class_func_def(r, src) ==
    LET name == r.m.heap[src].name
        merged == IF DictHas(r.stub_funcs, name)
                  THEN [r EXCEPT !.m = merge_nodes(r.m, src, DictGet(r.stub_funcs, name)),
                                 !.stub_funcs = DictDel(@, name)]
                  ELSE r
    IN  Bind(merged,
             LAMBDA r1 : IF r1.m.status = "ok" /\ name = "__init__"
                         THEN EnrichLoop(r1, InitParts(r1, r1.m.heap[src].body), 1)
                         ELSE r1)

merge_class_assignment(r, src) ==
    Bind(simple_assignment_name(r.m, r.m.heap[src], "NameExpr", TRUE),
         LAMBDA n :
             IF n.name = None THEN [r EXCEPT !.m = n.m]
             ELSE IF DictHas(r.stub_assigns, n.name[1])
                  THEN Bind(merge_nodes(n.m, src, DictGet(r.stub_assigns, n.name[1])),
                            LAMBDA m1 : IF m1.status = "ok"
                                        THEN [r EXCEPT !.m = m1,
                                                       !.stub_assigns = DictDel(@, n.name[1])]
                                        ELSE [r EXCEPT !.m = m1])
                  ELSE [r EXCEPT !.m = Raise(n.m, "KeyError")])

merge_class_decorator(r, src) ==
    LET name == r.m.heap[r.m.heap[src].func].name IN
    IF DictHas(r.stub_funcs, name)
    THEN [r EXCEPT !.m = merge_nodes(r.m, src, DictGet(r.stub_funcs, name)),
                   !.stub_funcs = DictDel(@, name)]
    ELSE r

RECURSIVE BodyLoop(_, _, _)
BodyLoop(r, body, i) ==
    IF i > Len(body) \/ r.m.status # "ok" THEN r
    ELSE LET entry == r.m.heap[body[i]] IN
         CASE entry.kind = "FuncDef" ->
                  BodyLoop(merge_class_func_def(r, body[i]), body, i + 1)
           [] entry.kind = "AssignmentStmt" ->
                  BodyLoop(merge_class_assignment(r, body[i]), body, i + 1)
           [] entry.kind = "Decorator" ->
                  BodyLoop(merge_class_decorator(r, body[i]), body, i + 1)
           [] OTHER -> BodyLoop(r, body, i + 1)

RECURSIVE ExtraLoop(_, _, _, _)
ExtraLoop(m, text, d, i) ==
    IF i > Len(d) THEN m
    ELSE ExtraLoop(report(m, Message(text, <<d[i][1]>>, m.heap[d[i][2]].line), None, None),
                   text, d, i + 1)

merge_type_info(m, s, t) ==
    LET stub == m.heap[t]
        copied == [m EXCEPT !.heap[s].type_vars = stub.type_vars,
                            !.heap[s].metaclass_type = stub.metaclass_type,
                            !.heap[s].runtime_protocol = stub.runtime_protocol]
    IN  Bind(merge_symbol_tables(copied, s, t),
             LAMBDA m1 :
                 IF m1.status # "ok" THEN m1
                 ELSE LET m2 == [m1 EXCEPT !.heap[m1.heap[s].defn].type_vars =
                                               m1.heap[stub.defn].type_vars]
                      IN  Bind(BodyLoop(collect_assign_and_funcs(m2, m2.heap[stub.defn].body),
                                        m2.heap[m2.heap[s].defn].body, 1),
                               LAMBDA r :
                                   IF r.m.status # "ok" THEN r.m
                                   ELSE ExtraLoop(ExtraLoop(r.m, "no source for assign",
                                                            r.stub_assigns, 1),
                                                  "no source for func", r.stub_funcs, 1)))

ExprKind(e) == IF e = None THEN "NoneType" ELSE e[1].kind

\* The for loop of merge_decorators; completed is FALSE when it ended in a break.
RECURSIVE DecoratorLoop(_, _, _, _)
DecoratorLoop(m, src, stub, i) ==
    IF i > Longest(src, stub) THEN [m |-> m, completed |-> TRUE]
    ELSE LET l == ZipLongestAt(src, i)
             r == ZipLongestAt(stub, i)
         IN  IF ExprKind(l) # ExprKind(r)
             THEN [m |-> report(m, Message("conflict of src and stub decorator",
                                           <<ExprKind(l), ExprKind(r)>>, NoLine), None, None),
                   completed |-> FALSE]
             ELSE IF ExprKind(l) = "NameExpr"
             THEN Bind(decorator_name_check(m, l[1], r[1]),
                       LAMBDA c : IF c.ok THEN DecoratorLoop(c.m, src, stub, i + 1)
                                  ELSE [m |-> c.m, completed |-> FALSE])
             ELSE IF ExprKind(l) = "CallExpr"
                     /\ l[1].callee.kind = "NameExpr" /\ r[1].callee.kind = "NameExpr"
             THEN Bind(decorator_name_check(m, l[1].callee, r[1].callee),
                       LAMBDA c : IF c.ok
                                  THEN DecoratorLoop(decorator_argument_checks(c.m, l[1], r[1]),
                                                     src, stub, i + 1)
                                  ELSE [m |-> c.m, completed |-> FALSE])
             ELSE DecoratorLoop(m, src, stub, i + 1)

merge_decorators(m, s, t) ==
    Bind(DecoratorLoop(m, m.heap[s].decorators, m.heap[t].decorators, 1),
         LAMBDA d : IF d.completed
                    THEN merge_nodes(d.m, d.m.heap[s].func, d.m.heap[t].func)
                    ELSE d.m)

\* report_from_element around the dispatch: the position is restored on the way
\* out, also when an exception propagates.
report_from_element(m, s, t) ==
    [m EXCEPT !._line = m.heap[s].line, !._column = m.heap[s].line, !.cur = <<s, t>>]

merge_nodes(m, s, t) ==
    IF m.status # "ok" THEN m
    ELSE LET src == m.heap[s]
             stub == m.heap[t]
             entered == report_from_element(m, s, t)
             left == IF src.kind # stub.kind
                     THEN report(entered, Message("conflict of src and stub definition",
                                                  <<src.kind, stub.kind>>, stub.line),
                                 None, None)
                     ELSE CASE src.kind = "Var" -> merge_variables(entered, s, t)
                            [] src.kind = "AssignmentStmt" -> merge_assignment(entered, s, t)
                            [] src.kind = "FuncDef" -> merge_func_definition(entered, s, t)
                            [] src.kind = "TypeInfo" -> merge_type_info(entered, s, t)
                            [] src.kind = "Decorator" -> merge_decorators(entered, s, t)
                            [] OTHER -> Raise(entered, "RuntimeError")
         IN  Bind(left,
                  LAMBDA d : [d EXCEPT !._line = m._line, !._column = m._column,
                                       !.cur = m.cur,
                                       !.calls = Append(@, [src |-> s, stub |-> t,
                                                            before |-> SignatureAt(m.heap, s),
                                                            after |-> SignatureAt(d.heap, s)])])

SrcFile == 1
StubFile == 2

RECURSIVE LvalueLoop(_, _, _, _)
LvalueLoop(defs, lvalues, d, i) ==
    IF i > Len(lvalues) THEN defs
    ELSE LvalueLoop(IF lvalues[i].kind = "NameExpr" THEN DictSet(defs, lvalues[i].name, d)
                    ELSE defs,
                    lvalues, d, i + 1)

RECURSIVE SourceDefinitionsLoop(_, _, _, _)
SourceDefinitionsLoop(nodes, defs, src_defs, i) ==
    IF i > Len(src_defs) THEN defs
    ELSE LET d == nodes[src_defs[i]] IN
         CASE d.kind = "ClassDef" ->
                  SourceDefinitionsLoop(nodes, DictSet(defs, d.name, src_defs[i]), src_defs, i + 1)
           [] d.kind = "AssignmentStmt" ->
                  SourceDefinitionsLoop(nodes, LvalueLoop(defs, d.lvalues, src_defs[i], 1),
                                        src_defs, i + 1)
           [] OTHER -> SourceDefinitionsLoop(nodes, defs, src_defs, i + 1)

source_definitions(m) == SourceDefinitionsLoop(m.heap, <<>>, m.heap[SrcFile].defs, 1)

\* The loop of enrich_src_defs_with_stub_only over self.stub.defs; e holds the
\* engine state and the locals src_definitions and stub_definitions.
RECURSIVE StubDefsLoop(_, _, _)
StubDefsLoop(e, stub_defs, k) ==
    IF k > Len(stub_defs) THEN e
    ELSE LET id == stub_defs[k]
             i == e.m.heap[id]
             Add == [e EXCEPT !.stub_definitions = Append(@, id)]
         IN  CASE i.kind = "ImportBase" -> StubDefsLoop(Add, stub_defs, k + 1)
               [] i.kind = "ClassDef" ->
                      StubDefsLoop(IF ~DictHas(e.src_definitions, i.name) THEN Add ELSE e,
                                   stub_defs, k + 1)
               [] i.kind = "AssignmentStmt" /\ Len(i.lvalues) = 1
                  /\ i.lvalues[1].kind = "NameExpr" ->
                      LET name == i.lvalues[1].name IN
                      IF ~DictHas(e.src_definitions, name)
                      THEN StubDefsLoop(Add, stub_defs, k + 1)
                      ELSE LET src_assignment == DictGet(e.src_definitions, name) IN
                           IF e.m.heap[src_assignment].kind = "AssignmentStmt"
                           THEN StubDefsLoop(
                                    [e EXCEPT !.m.heap[src_assignment].type = i.type,
                                              !.m.heap[src_assignment].unanalyzed_type =
                                                  i.unanalyzed_type,
                                              !.src_definitions = DictDel(@, name)],
                                    stub_defs, k + 1)
                           ELSE StubDefsLoop(e, stub_defs, k + 1)
               [] OTHER -> StubDefsLoop(e, stub_defs, k + 1)

enrich_src_defs_with_stub_only(m) ==
    Bind(StubDefsLoop([m |-> m, src_definitions |-> source_definitions(m),
                       stub_definitions |-> <<>>],
                      m.heap[StubFile].defs, 1),
         LAMBDA e : [e.m EXCEPT !.heap[SrcFile].imports = @ \o e.m.heap[StubFile].imports,
                                !.heap[SrcFile].defs = e.stub_definitions \o @])

run(m) ==
    Bind(merge_symbol_tables(m, SrcFile, StubFile),
         LAMBDA m1 : IF m1.status = "ok" THEN enrich_src_defs_with_stub_only(m1) ELSE m1)

----------------------------------------------------------------------------
(* The trees given to MergeFiles                                           *)
(*                                                                         *)
(* A tree is described by its statements; BuildTree lays the nodes out in   *)
(* the heap and fills the symbol tables the way the semantic analysis       *)
(* leaves them: one node per name, the first definition of the name; a      *)
(* function or a decorated function is its own symbol node, an assigned     *)
(* name has a Var, a class has a TypeInfo whose defn is the ClassDef.       *)

NameExpr(n) == [kind |-> "NameExpr", name |-> n, items |-> <<>>]
MemberExpr(n) == [kind |-> "MemberExpr", name |-> n, items |-> <<>>]
TupleExpr(ns) == [kind |-> "TupleExpr", name |-> "", items |-> ns]

NameDecorator(n) ==
    [kind |-> "NameExpr", name |-> n, callee |-> NameExpr(n), arg_names |-> <<>>,
     args |-> <<>>]

\* A decorator that is an attribute reference, @<module>.n
MemberDecorator(n) ==
    [kind |-> "MemberExpr", name |-> n, callee |-> MemberExpr(n), arg_names |-> <<>>,
     args |-> <<>>]

CallDecorator(n, names, values) ==
    [kind |-> "CallExpr", name |-> n, callee |-> NameExpr(n), arg_names |-> names,
     args |-> values]

Statement(kind, name) ==
    [kind |-> kind, name |-> name, arg_names |-> <<>>, decorators |-> <<>>,
     lvalues |-> <<>>, rvalue |-> "", parts |-> <<>>, body |-> <<>>]

FuncStmt(name, names, parts) ==
    [Statement("FuncDef", name) EXCEPT !.arg_names = names, !.parts = parts]

DecoratorStmt(name, names, decorators) ==
    [Statement("Decorator", name) EXCEPT !.arg_names = names, !.decorators = decorators]

AssignStmt(lvalues, rvalue) ==
    [Statement("AssignmentStmt", "") EXCEPT !.lvalues = lvalues, !.rvalue = rvalue]

ClassStmt(name, body) == [Statement("ClassDef", name) EXCEPT !.body = body]

ImportStmt(name) == Statement("ImportBase", name)

\* A part of a constructor body: self.<attr> = ..., directly or in an `if`.
Part(kind, attr) == [kind |-> kind, attr |-> attr]

\* Node ids: a statement at position i of the module has id file + 10 * i, the
\* entry j of its class body has id file + 10 * i + j.
SrcBase == 100
StubBase == 200
SymbolOffset == 300
SecondOffset == 1200
FuncOffset == 600
PartOffset == 2000
BlockOffset == 4000

LineOf(id, base) == 10 * (id - base)

\* The width of one level of indentation.
Indent == 4

\* The column of the statement at id: a statement of a module starts at column 0,
\* a statement of a class body is indented once.
ColumnOf(id, base) == IF (id - base) % 10 = 0 THEN 0 ELSE Indent

TypeOf(id) == <<"type", id>>
UnanalyzedOf(id) == <<"unanalyzed_type", id>>
KindsOf(id) == <<"arg_kinds", id>>

PartId(id, k) == id + PartOffset + 10 * k

\* The names a statement defines, with the node of each.
SymbolsOf(d, id) ==
    CASE d.kind \in {"FuncDef", "Decorator"} -> << <<d.name, id>> >>
      [] d.kind = "ClassDef" -> << <<d.name, id + SymbolOffset>> >>
      [] d.kind = "ImportBase" -> << <<d.name, id + SymbolOffset>> >>
      [] d.kind = "AssignmentStmt" ->
             IF d.lvalues[1].kind = "NameExpr"
             THEN [k \in 1..Len(d.lvalues) |->
                      <<d.lvalues[k].name,
                        IF k = 1 THEN id + SymbolOffset ELSE id + SecondOffset>>]
             ELSE IF d.lvalues[1].kind = "TupleExpr"
             THEN [k \in 1..Len(d.lvalues[1].items) |->
                      <<d.lvalues[1].items[k],
                        IF k = 1 THEN id + SymbolOffset ELSE id + SecondOffset>>]
             ELSE <<>>

\* The attributes a constructor defines through self.
AttributesOf(d, id) ==
    IF d.kind = "FuncDef" /\ d.name = "__init__"
    THEN [k \in 1..Len(d.parts) |-> <<d.parts[k].attr, PartId(id, k) + SymbolOffset>>]
    ELSE <<>>

RECURSIVE AddFirst(_, _, _)
AddFirst(table, symbols, k) ==
    IF k > Len(symbols) THEN table
    ELSE AddFirst(IF DictHas(table, symbols[k][1]) THEN table
                  ELSE Append(table, symbols[k]),
                  symbols, k + 1)

RECURSIVE TableLoop(_, _, _, _, _)
TableLoop(table, body, ids, k, attributes) ==
    IF k > Len(body) THEN table
    ELSE TableLoop(AddFirst(table,
                            IF attributes THEN AttributesOf(body[k], ids[k])
                            ELSE SymbolsOf(body[k], ids[k]), 1),
                   body, ids, k + 1, attributes)

\* The symbol table of a body whose entry k has id ids[k]: the names of the
\* statements, then the attributes the constructor adds.
TableOf(body, ids) == TableLoop(TableLoop(<<>>, body, ids, 1, FALSE), body, ids, 1, TRUE)

VarNode(id, line, column) ==
    [kind |-> "Var", line |-> line, column |-> column, type |-> TypeOf(id)]

\* The nodes of a leaf statement d laid out at id: pairs <<id, node>>.
LeafNodes(d, id, base) ==
    LET line == LineOf(id, base)
        column == ColumnOf(id, base)
    IN
    CASE d.kind = "FuncDef" ->
             {<<id, [kind |-> "FuncDef", line |-> line, column |-> column, name |-> d.name,
                     arg_names |-> d.arg_names, arg_kinds |-> KindsOf(id),
                     type |-> TypeOf(id), unanalyzed_type |-> UnanalyzedOf(id),
                     body |-> [k \in 1..Len(d.parts) |->
                                  IF d.parts[k].kind = "IfStmt"
                                  THEN PartId(id, k) + BlockOffset
                                  ELSE PartId(id, k)]]>>}
             \cup {<<PartId(id, k),
                     [kind |-> "AssignmentStmt", line |-> line + k, column |-> column + Indent,
                      lvalues |-> <<MemberExpr(d.parts[k].attr)>>, rvalue |-> "IntExpr",
                      type |-> TypeOf(PartId(id, k)),
                      unanalyzed_type |-> UnanalyzedOf(PartId(id, k))]>> :
                   k \in 1..Len(d.parts)}
             \cup {<<PartId(id, k) + BlockOffset,
                     [kind |-> "IfStmt", line |-> line + k, column |-> column + Indent,
                      body |-> << <<PartId(id, k)>> >>]>> :
                   k \in {j \in 1..Len(d.parts) : d.parts[j].kind = "IfStmt"}}
             \cup {<<PartId(id, k) + SymbolOffset,
                     VarNode(PartId(id, k) + SymbolOffset, line + k, column + Indent)>> :
                   k \in 1..Len(d.parts)}
      [] d.kind = "Decorator" ->
             {<<id, [kind |-> "Decorator", line |-> line, column |-> column,
                     func |-> id + FuncOffset,
                     decorators |-> [k \in 1..Len(d.decorators) |->
                                        [kind |-> d.decorators[k].kind,
                                         name |-> d.decorators[k].name,
                                         callee |-> d.decorators[k].callee,
                                         arg_names |-> d.decorators[k].arg_names,
                                         args |-> d.decorators[k].args,
                                         line |-> line, column |-> column + 1]]]>>,
              <<id + FuncOffset,
                [kind |-> "FuncDef", line |-> line + 1, column |-> column, name |-> d.name,
                 arg_names |-> d.arg_names, arg_kinds |-> KindsOf(id + FuncOffset),
                 type |-> TypeOf(id + FuncOffset),
                 unanalyzed_type |-> UnanalyzedOf(id + FuncOffset), body |-> <<>>]>>}
      [] d.kind = "AssignmentStmt" ->
             {<<id, [kind |-> "AssignmentStmt", line |-> line, column |-> column,
                     lvalues |-> d.lvalues,
                     rvalue |-> d.rvalue, type |-> TypeOf(id),
                     unanalyzed_type |-> UnanalyzedOf(id)]>>}
             \cup {<<SymbolsOf(d, id)[k][2], VarNode(SymbolsOf(d, id)[k][2], line, column)>> :
                   k \in 1..Len(SymbolsOf(d, id))}
      [] d.kind = "ImportBase" ->
             {<<id, [kind |-> "ImportBase", line |-> line, column |-> column, name |-> d.name]>>,
              <<id + SymbolOffset,
                [kind |-> "MypyFile", line |-> NoLine, column |-> NoLine, name |-> d.name]>>}
      [] OTHER -> {}

ClassNodes(d, id, base) ==
    LET line == LineOf(id, base)
        column == ColumnOf(id, base)
    IN
    {<<id, [kind |-> "ClassDef", line |-> line, column |-> column, name |-> d.name,
            type_vars |-> <<"type_vars", id>>,
            body |-> [k \in 1..Len(d.body) |-> id + k]]>>,
     <<id + SymbolOffset,
       [kind |-> "TypeInfo", line |-> line, column |-> column, defn |-> id,
        type_vars |-> <<"type_vars", id>>, metaclass_type |-> <<"metaclass_type", id>>,
        runtime_protocol |-> <<"runtime_protocol", id>>,
        names |-> TableOf(d.body, [k \in 1..Len(d.body) |-> id + k])]>>}

\* A class in a class body has an empty body of its own.
StatementNodes(d, id, base) ==
    IF d.kind = "ClassDef"
    THEN ClassNodes(d, id, base)
         \cup UNION {IF d.body[k].kind = "ClassDef"
                     THEN ClassNodes(d.body[k], id + k, base)
                     ELSE LeafNodes(d.body[k], id + k, base) : k \in 1..Len(d.body)}
    ELSE LeafNodes(d, id, base)

HeapOf(pairs) ==
    [id \in {p[1] : p \in pairs} |-> (CHOOSE p \in pairs : p[1] = id)[2]]

\* The MypyFile node and the nodes of its statements.
BuildTree(file, defs, base) ==
    {<<file, [kind |-> "MypyFile", line |-> NoLine, column |-> NoLine,
              names |-> TableOf(defs, [k \in 1..Len(defs) |-> base + 10 * k]),
              defs |-> [k \in 1..Len(defs) |-> base + 10 * k],
              imports |-> SelectSeq([k \in 1..Len(defs) |-> base + 10 * k],
                                    LAMBDA id : defs[(id - base) \div 10].kind = "ImportBase")]>>}
    \cup UNION {StatementNodes(defs[k], base + 10 * k, base) : k \in 1..Len(defs)}

----------------------------------------------------------------------------
(* The inputs of the discovery run *)

MaxInput == 4

dPkg == <<nPkg>>
dBad == <<nBadPkg>>
dPkgPkg == <<nPkg, nPkg>>
dPkgBad == <<nPkg, nBadPkg>>

\* The paths a file may have: in the current directory, in a directory of it and
\* in a sub-directory of that; directory names are a valid and an invalid
\* identifier.
CandidateFiles ==
    {Join(<<>>, n) : n \in {nAPy, nAPyi, nScript}}
    \cup {Join(dPkg, n) : n \in {nInitPy, nInitPyi, nAPy, nAPyi, nPkgPy, nDottedPy,
                                 nBadPy, nPyTyped}}
    \cup {Join(dBad, n) : n \in {nInitPy, nAPy}}
    \cup {Join(dPkgPkg, n) : n \in {nInitPy, nAPy}}
    \cup {Join(dPkgBad, n) : n \in {nInitPy}}

\* The size of an input is the number of files on disk plus the number of
\* arguments; a run has at least one file and one argument.
FileSystems ==
    {fsys \in SUBSET CandidateFiles :
        Cardinality(fsys) >= 1 /\ Cardinality(fsys) < MaxInput}

DirsOf(fsys) == UNION {{SubSeq(f, 1, k) : k \in 1..(Len(f) - 1)} : f \in fsys}

\* The arguments name files and directories that exist.
ArgLists(fsys) ==
    UNION {[1..n -> fsys \cup DirsOf(fsys)] : n \in 1..(MaxInput - Cardinality(fsys))}

OptionSets ==
    [merge_stub_into_src : BOOLEAN, scripts_are_modules : BOOLEAN, allow_empty_dir : BOOLEAN]

NoOptions ==
    [merge_stub_into_src |-> FALSE, scripts_are_modules |-> FALSE, allow_empty_dir |-> FALSE]

\* No merge: the state of the merge variables during a discovery run.
NoMerge ==
    /\ tree = [src_module |-> <<>>, src_class |-> <<>>, stub_module |-> <<>>,
               stub_class |-> <<>>]
    /\ heap = <<>>
    /\ errors = [file |-> <<"", "">>, error_info |-> <<>>]
    /\ _line = NoLine
    /\ _column = 0
    /\ merge_outcome = "none"
    /\ about = <<>>
    /\ calls = <<>>
    /\ ended = <<>>
    /\ instances = <<>>
    /\ owner = <<>>

\* No resolvers share the cache.
NoResolvers == workers = <<>> /\ written = <<>>

Init ==
    /\ NoMerge
    /\ NoResolvers
    /\ files \in FileSystems
    /\ args = <<>>
    /\ options = NoOptions
    /\ phase = "init"
    /\ outcome = "none"
    /\ reason = "none"
    /\ targets = <<>>
    /\ package_cache = EmptyCache
    /\ resolved = {}

CreateSourceList ==
    /\ phase = "init"
    /\ \E fs \in ArgLists(files), opts \in OptionSets :
          \E r \in {create_source_list(fs, opts)} :
              /\ args' = fs
              /\ options' = opts
              /\ outcome' = r.status
              /\ reason' = r.reason
              /\ targets' = r.targets
              /\ package_cache' = r.cache
              /\ resolved' = r.checked
    /\ phase' = "done"
    /\ UNCHANGED files
    /\ UNCHANGED mvars
    /\ UNCHANGED cvars

Next == CreateSourceList

Spec == Init /\ [][Next]_vars

----------------------------------------------------------------------------
(* Two resolvers on one package_cache                                      *)
(*                                                                          *)
(* crawl_up_dir run step by step: a resolver holds the stack of its active *)
(* calls, the last frame is the running one.  A step is the part of a call  *)
(* between two accesses of the shared dict: the lookup with the work up to  *)
(* the recursive call, and the store with the return.                       *)

Resolvers == {"A", "B"}

\* A call of crawl_up_dir(dir) that has not yet looked into the cache.
Frame(dir) == [dir |-> dir, pc |-> "enter", res |-> <<>>, base_dir |-> <<>>]

\* `parent, base_dir = self.crawl_up_dir(parent_dir)` and
\* `res = module_join(parent, base)` without the join.
Resume_NoJoin(frame, value) ==
    [frame EXCEPT !.pc = "write", !.res = SplitTail(frame.dir), !.base_dir = value[2]]

\* The caller goes on with the value the recursive call returned.
Resume(frame, value) ==
    [frame EXCEPT !.pc = "write", !.res = module_join(value[1], SplitTail(frame.dir)),
                  !.base_dir = value[2]]

\* The running call returns value: the resolver is done, or its caller goes on.
Deliver(wk, value) ==
    LET rest == SubSeq(wk.stack, 1, Len(wk.stack) - 1)
    IN  IF rest = <<>>
        THEN [wk EXCEPT !.stack = <<>>, !.status = "returned", !.result = Some(value)]
        ELSE [wk EXCEPT !.stack = [rest EXCEPT ![Len(rest)] = Resume(@, value)]]

Running(w) == workers[w].status = "running"

Top(w) == workers[w].stack[Len(workers[w].stack)]

\* From the entry of crawl_up_dir to its recursive call, its raise or the point
\* before the store.
Lookup(w) ==
    /\ Running(w)
    /\ Top(w).pc = "enter"
    /\ LET wk == workers[w]
           dir == Top(w).dir
           parent_dir == SplitHead(dir)
           base == SplitTail(dir)
           n == Len(wk.stack)
       IN  workers' = [workers EXCEPT ![w] =
               IF dir \in DOMAIN package_cache
               THEN Deliver(wk, package_cache[dir])
               ELSE IF dir = <<>> \/ get_init_file(dir) = None \/ base = <<>>
               THEN [wk EXCEPT !.stack[n] =
                        [@ EXCEPT !.pc = "write", !.res = <<>>,
                                  !.base_dir = IF dir # <<>> THEN dir ELSE <<Dot>>]]
               ELSE IF ~ValidPackageName(base)
               THEN [wk EXCEPT !.stack = <<>>, !.status = "raised"]
               ELSE [wk EXCEPT !.stack = Append([@ EXCEPT ![n].pc = "called"],
                                                Frame(parent_dir))]]
    /\ UNCHANGED <<package_cache, written>>
    /\ UNCHANGED <<files, args, options, phase, outcome, reason, targets, resolved>>
    /\ UNCHANGED mvars

\* `self.package_cache[dir] = res, base_dir` and the return.
Store(w) ==
    /\ Running(w)
    /\ Top(w).pc = "write"
    /\ LET value == <<Top(w).res, Top(w).base_dir>>
       IN  /\ package_cache' = [d \in DOMAIN package_cache \cup {Top(w).dir} |->
                                   IF d = Top(w).dir THEN value ELSE package_cache[d]]
           /\ written' = Append(written, <<Top(w).dir, value>>)
           /\ workers' = [workers EXCEPT ![w] = Deliver(@, value)]
    /\ UNCHANGED <<files, args, options, phase, outcome, reason, targets, resolved>>
    /\ UNCHANGED mvars

\* The directories a resolver is asked for: those of the files on disk and ''.
ResolvedDirs(fsys) == DirsOf(fsys) \cup {<<>>}

\* The file systems of marker files and modules in the candidate directories.
PackageFileSystems ==
    {fsys \in FileSystems : \A f \in fsys : SplitTail(f) \in {nInitPy, nInitPyi, nAPy}}

CacheInit ==
    /\ NoMerge
    /\ files \in PackageFileSystems
    /\ args = <<>>
    /\ options = NoOptions
    /\ phase = "none"
    /\ outcome = "none"
    /\ reason = "none"
    /\ targets = <<>>
    /\ resolved = {}
    /\ package_cache = EmptyCache
    /\ written = <<>>
    /\ workers \in [Resolvers -> {[target |-> d, stack |-> <<Frame(d)>>,
                                   status |-> "running", result |-> None] :
                                  d \in ResolvedDirs(files)}]

CacheNext == \E w \in Resolvers : Lookup(w) \/ Store(w)

SpecCache == CacheInit /\ [][CacheNext]_vars

----------------------------------------------------------------------------
(* The inputs of the merge *)

MaxStmts == 3

\* The number of times run() is called on one MergeFiles object.
MaxRuns == 2

Self == <<"self">>

\* What the body of class C may hold in the source file ...
SrcClassBody ==
    {FuncStmt("f", <<"self", "x">>, <<>>),
     FuncStmt("__init__", Self, <<Part("AssignmentStmt", "x")>>),
     FuncStmt("__init__", Self, <<Part("AssignmentStmt", "x"), Part("IfStmt", "x")>>),
     AssignStmt(<<NameExpr("x")>>, "IntExpr"),
     AssignStmt(<<TupleExpr(<<"p", "q">>)>>, "TupleExpr"),
     DecoratorStmt("f", <<"self", "x">>, <<NameDecorator("d")>>),
     ClassStmt("D", <<>>)}

\* ... and in the stub file.
StubClassBody ==
    {FuncStmt("f", <<"self", "x">>, <<>>),
     FuncStmt("f", <<"self", "y">>, <<>>),
     AssignStmt(<<NameExpr("x")>>, "EllipsisExpr"),
     AssignStmt(<<NameExpr("x")>>, "IntExpr"),
     AssignStmt(<<NameExpr("x")>>, "TempNode"),
     DecoratorStmt("f", <<"self", "x">>, <<NameDecorator("d")>>),
     ClassStmt("D", <<>>)}

\* The statements of the source module besides class C ...
SrcModule ==
    {FuncStmt("g", <<"x">>, <<>>),
     DecoratorStmt("g", <<"x">>, <<NameDecorator("d")>>),
     DecoratorStmt("g", <<"x">>, <<CallDecorator("d", <<"k">>, <<"IntExpr">>)>>),
     DecoratorStmt("g", <<"x">>, <<MemberDecorator("d")>>),
     AssignStmt(<<NameExpr("a")>>, "IntExpr")}

\* ... and of the stub module.
StubModule ==
    {FuncStmt("g", <<"x">>, <<>>),
     FuncStmt("g", <<"y">>, <<>>),
     DecoratorStmt("g", <<"x">>, <<NameDecorator("d")>>),
     DecoratorStmt("g", <<"x">>, <<NameDecorator("e")>>),
     DecoratorStmt("g", <<"x">>, <<CallDecorator("d", <<"k">>, <<"EllipsisExpr">>)>>),
     DecoratorStmt("g", <<"x">>, <<CallDecorator("d", <<"j">>, <<"EllipsisExpr">>)>>),
     DecoratorStmt("g", <<"x">>, <<CallDecorator("d", <<"k">>, <<"IntExpr">>)>>),
     DecoratorStmt("g", <<"x">>, <<MemberDecorator("e")>>),
     AssignStmt(<<NameExpr("a")>>, "EllipsisExpr"),
     ClassStmt("E", <<>>),
     ImportStmt("typing")}

\* Both modules define class C; the size of an input is the number of the
\* other statements of the two modules and of the two bodies of C.
Sizes ==
    {s \in [src_module : 0..MaxStmts, src_class : 0..MaxStmts,
            stub_module : 0..MaxStmts, stub_class : 0..MaxStmts] :
        s.src_module + s.src_class + s.stub_module + s.stub_class <= MaxStmts}

Trees ==
    UNION {[src_module : [1..s.src_module -> SrcModule],
            src_class : [1..s.src_class -> SrcClassBody],
            stub_module : [1..s.stub_module -> StubModule],
            stub_class : [1..s.stub_class -> StubClassBody]] : s \in Sizes}

SrcDefs(t) == <<ClassStmt("C", t.src_class)>> \o t.src_module
StubDefs(t) == <<ClassStmt("C", t.stub_class)>> \o t.stub_module

BuildHeap(t) ==
    HeapOf(BuildTree(SrcFile, SrcDefs(t), SrcBase) \cup BuildTree(StubFile, StubDefs(t), StubBase))

\* errors.set_file(src_xpath, src_id)
SrcXPath == "m.py"
SrcId == "m"

NoPair == <<0, 0>>

\* The engine state of a MergeFiles object on the state variables.
Engine ==
    [heap |-> heap, errors |-> errors, _line |-> _line, _column |-> _column,
     status |-> "ok", exc |-> "none", cur |-> NoPair, about |-> about, calls |-> calls]

\* MergeFiles.__init__ on the trees of t.
Constructed(t) ==
    /\ tree = t
    /\ heap = BuildHeap(t)
    /\ errors = [file |-> <<SrcXPath, SrcId>>, error_info |-> <<>>]
    /\ _line = NoLine
    /\ _column = 0
    /\ merge_outcome = "constructed"
    /\ about = <<>>
    /\ calls = <<>>
    /\ ended = <<>>
    /\ instances = <<>>
    /\ owner = <<>>

\* No discovery: the state of the discovery variables during a merge.
NoDiscovery ==
    /\ files = {}
    /\ args = <<>>
    /\ options = NoOptions
    /\ phase = "none"
    /\ outcome = "none"
    /\ reason = "none"
    /\ targets = <<>>
    /\ package_cache = EmptyCache
    /\ resolved = {}
    /\ NoResolvers

MergeInit == NoDiscovery /\ \E t \in Trees : Constructed(t)

\* MergeFiles.run(): the first run, and further runs on the trees a returned
\* run left.
Run ==
    /\ \/ merge_outcome = "constructed"
       \/ merge_outcome = "returned" /\ Len(ended) < MaxRuns
    /\ \E m \in {run(Engine)} :
          /\ heap' = m.heap
          /\ errors' = m.errors
          /\ _line' = m._line
          /\ _column' = m._column
          /\ merge_outcome' = IF m.status = "ok" THEN "returned" ELSE m.exc
          /\ about' = m.about
          /\ calls' = m.calls
          /\ ended' = Append(ended, Len(m.errors.error_info))
    /\ UNCHANGED <<tree, instances, owner>>
    /\ UNCHANGED fvars
    /\ UNCHANGED cvars

MergeNext == Run

SpecMerge == MergeInit /\ [][MergeNext]_vars

----------------------------------------------------------------------------
(* Two MergeFiles objects on one Errors sink                               *)
(*                                                                          *)
(* Each object merges its own module pair; the sink is the one Errors      *)
(* object both constructors were given.  Construction and run() of the two  *)
(* objects interleave in any order.                                         *)

\* The number of statements in the stub class body of a module pair.
MaxShared == 1

ModulePairs == {"a", "b"}

\* src_xpath and src_id of the module pair.
XPathOf(i) == <<IF i = "a" THEN "a.py" ELSE "b.py", i>>

\* The module pairs: class C on both sides, the stub class with members the
\* source class lacks.
SharedTrees ==
    {[src_module |-> <<>>, src_class |-> <<>>, stub_module |-> <<>>, stub_class |-> c] :
        c \in UNION {[1..n -> StubClassBody] : n \in 0..MaxShared}}

NotConstructed(t) ==
    [state |-> "none", tree |-> t, heap |-> <<>>, _line |-> NoLine, _column |-> 0]

SharedInit ==
    /\ NoDiscovery
    /\ tree = [src_module |-> <<>>, src_class |-> <<>>, stub_module |-> <<>>,
               stub_class |-> <<>>]
    /\ heap = <<>>
    /\ errors = [file |-> <<"", "">>, error_info |-> <<>>]
    /\ _line = NoLine
    /\ _column = 0
    /\ merge_outcome = "none"
    /\ about = <<>>
    /\ calls = <<>>
    /\ ended = <<>>
    /\ owner = <<>>
    /\ instances \in [ModulePairs -> {NotConstructed(t) : t \in SharedTrees}]

\* MergeFiles.__init__ of the object for module pair i: it sets the file of the
\* shared sink.
Construct(i) ==
    /\ instances[i].state = "none"
    /\ instances' = [instances EXCEPT ![i] =
                        [@ EXCEPT !.state = "constructed", !.heap = BuildHeap(instances[i].tree),
                                  !._line = NoLine, !._column = 0]]
    /\ errors' = [errors EXCEPT !.file = XPathOf(i)]
    /\ UNCHANGED <<tree, heap, _line, _column, merge_outcome, about, calls, ended, owner>>
    /\ UNCHANGED fvars
    /\ UNCHANGED cvars

\* run() of the object for module pair i, on the sink as it is now.
RunInstance(i) ==
    /\ instances[i].state = "constructed"
    /\ \E m \in {run([heap |-> instances[i].heap, errors |-> errors,
                      _line |-> instances[i]._line, _column |-> instances[i]._column,
                      status |-> "ok", exc |-> "none", cur |-> NoPair,
                      about |-> <<>>, calls |-> <<>>])} :
          /\ instances' = [instances EXCEPT ![i] =
                              [@ EXCEPT !.state = IF m.status = "ok" THEN "returned"
                                                  ELSE m.exc,
                                        !.heap = m.heap, !._line = m._line,
                                        !._column = m._column]]
          /\ errors' = m.errors
          /\ owner' = owner \o [k \in 1..(Len(m.errors.error_info)
                                            - Len(errors.error_info)) |-> i]
    /\ UNCHANGED <<tree, heap, _line, _column, merge_outcome, about, calls, ended>>
    /\ UNCHANGED fvars
    /\ UNCHANGED cvars

SharedNext == \E i \in ModulePairs : Construct(i) \/ RunInstance(i)

SpecShared == SharedInit /\ [][SharedNext]_vars


----------------------------------------------------------------------------
(* Properties of the discovery run *)

Range(seq) == {seq[i] : i \in 1..Len(seq)}

Returned == phase = "done" /\ outcome = "returned"

\* The call expanded one directory argument and nothing else.
DirRun == Returned /\ Len(args) = 1 /\ IsDir(args[1])

\* Every argument is a file (explicit-file mode).
FileRun == Returned /\ \A i \in 1..Len(args) : IsFile(args[i])

\* The directories whose listing a directory run walks: the argument, and every
\* sub-directory with a marker file of a walked directory.
RECURSIVE Walked(_)
Walked(d) ==
    \/ d \in Range(args)
    \/ Len(d) > 1 /\ get_init_file(d) # None /\ Walked(SplitHead(d))

WalkedDirs == {d \in DirsOf(files) : Walked(d)}

\* The base names of the files with a Python extension in the listing of d.
RecognizedBases(d) ==
    {Splitext(n).base : n \in {m \in ListDir(d) : IsFile(Join(d, m)) /\ Splitext(m).ext \in ExtSet}}

ImplPath(d, b) == Join(d, b \o pyExt)
OverlayPath(d, b) == Join(d, b \o pyiExt)

\* The positions in targets of the units for base name b of directory d.
UnitsAt(d, b) ==
    {i \in 1..Len(targets) :
        /\ SplitHead(targets[i].path) = d
        /\ Splitext(SplitTail(targets[i].path)).base = b}

\* b is the name of a sub-directory of d that is a package.
PackageSubdir(d, b) == IsDir(Join(d, b)) /\ get_init_file(Join(d, b)) # None

\* A base name that is handled as a regular entry of the listing.
RegularBase(d, b) == b # nInit /\ ~Contains(b, ".") /\ ~PackageSubdir(d, b)

\* Every path that occurs in the output, as a unit or as a unit's overlay.
OutputPaths ==
    {targets[i].path : i \in 1..Len(targets)}
    \cup {targets[i].merge_with[1].path :
             i \in {j \in 1..Len(targets) : targets[j].merge_with # None}}

\* With merging: one unit for (d, b); the implementation file with the overlay
\* unit (same module id and base_dir) when both exist, else the one file alone.
MergedUnitFor(d, b) ==
    /\ Cardinality(UnitsAt(d, b)) = 1
    /\ \A i \in UnitsAt(d, b) :
          IF IsFile(ImplPath(d, b)) /\ IsFile(OverlayPath(d, b))
          THEN /\ targets[i].path = ImplPath(d, b)
               /\ targets[i].merge_with =
                     Some(BuildSource(OverlayPath(d, b), targets[i].module,
                                      targets[i].base_dir, None))
          ELSE /\ IsFile(targets[i].path)
               /\ targets[i].merge_with = None

\* C1 as stated: with merging enabled, every base name of a recognized file in a
\* walked listing has exactly one unit, the implementation file paired with the
\* overlay when both exist, the one file with no overlay otherwise.
C1_AsStated ==
    (DirRun /\ options.merge_stub_into_src) =>
        \A d \in WalkedDirs : \A b \in RecognizedBases(d) : MergedUnitFor(d, b)

\* C1 (amended): with merging enabled, in every walked listing, every base name
\* other than the marker's, without a dot and not the name of a package
\* sub-directory has exactly one unit, the implementation file paired with the
\* overlay unit (same module id and base_dir) when both files exist and the one
\* file unpaired otherwise; the marker base name has exactly one unit, the marker
\* file get_init_file selects (the overlay first), never paired; a dotted base
\* name and one shadowed by a package sub-directory have no unit.
C1_DirectoryMerge ==
    (DirRun /\ options.merge_stub_into_src) =>
        \A d \in WalkedDirs : \A b \in RecognizedBases(d) :
            IF RegularBase(d, b) THEN MergedUnitFor(d, b)
            ELSE IF b = nInit
            THEN /\ Cardinality(UnitsAt(d, b)) = 1
                 /\ \A i \in UnitsAt(d, b) :
                       /\ Some(targets[i].path) = get_init_file(d)
                       /\ targets[i].merge_with = None
            ELSE UnitsAt(d, b) = {}

\* A directory run with merging that paired an implementation file with its overlay.
C1_Witness ==
    /\ DirRun /\ options.merge_stub_into_src
    /\ \E d \in WalkedDirs : \E b \in RecognizedBases(d) :
          /\ RegularBase(d, b)
          /\ IsFile(ImplPath(d, b)) /\ IsFile(OverlayPath(d, b))
          /\ \E i \in UnitsAt(d, b) : targets[i].merge_with # None

\* Without merging: one unit for (d, b), never paired; the overlay alone when
\* both files exist, and then the implementation file is nowhere in the output.
UnmergedUnitFor(d, b) ==
    /\ Cardinality(UnitsAt(d, b)) = 1
    /\ \A i \in UnitsAt(d, b) :
          /\ targets[i].merge_with = None
          /\ IsFile(targets[i].path)
          /\ (IsFile(ImplPath(d, b)) /\ IsFile(OverlayPath(d, b))) =>
                /\ targets[i].path = OverlayPath(d, b)
                /\ ImplPath(d, b) \notin OutputPaths

\* C2 as stated: with merging disabled, every base name of a recognized file in a
\* walked listing has exactly one unit, unpaired, the overlay alone when both exist.
C2_AsStated ==
    (DirRun /\ ~options.merge_stub_into_src) =>
        \A d \in WalkedDirs : \A b \in RecognizedBases(d) : UnmergedUnitFor(d, b)

\* C2 (amended): with merging disabled no unit has a paired overlay, and in every
\* walked listing every base name without a dot that is not the name of a package
\* sub-directory has exactly one unit: the overlay file alone when both files
\* exist (the implementation file is then nowhere in the output), else the one
\* file; a dotted or shadowed base name has no unit.
C2_DirectoryNoMerge ==
    (DirRun /\ ~options.merge_stub_into_src) =>
        /\ \A i \in 1..Len(targets) : targets[i].merge_with = None
        /\ \A d \in WalkedDirs : \A b \in RecognizedBases(d) :
              IF ~Contains(b, ".") /\ ~PackageSubdir(d, b)
              THEN UnmergedUnitFor(d, b)
              ELSE UnitsAt(d, b) = {}

\* A directory run without merging that dropped an implementation file for its overlay.
C2_Witness ==
    /\ DirRun /\ ~options.merge_stub_into_src
    /\ \E d \in WalkedDirs : \E b \in RecognizedBases(d) :
          /\ IsFile(ImplPath(d, b)) /\ IsFile(OverlayPath(d, b))
          /\ \E i \in UnitsAt(d, b) : targets[i].path = OverlayPath(d, b)
          /\ ImplPath(d, b) \notin OutputPaths

\* C3: in explicit-file mode with merging enabled, whenever an implementation
\* file and its overlay are both listed, in either order, the output has exactly
\* one unit for the two paths: the implementation file with the overlay as its
\* paired overlay; the overlay is no unit of its own, and listing the two in the
\* other order gives the same output.
C3_ExplicitPairing ==
    (FileRun /\ options.merge_stub_into_src) =>
        /\ \A p \in Range(args) :
              (PathSplitext(p).ext = pyExt
                  /\ WithSuffix(PathSplitext(p).base, pyiExt) \in Range(args)) =>
                LET o == WithSuffix(PathSplitext(p).base, pyiExt)
                    at == {i \in 1..Len(targets) : targets[i].path \in {p, o}}
                IN  /\ Cardinality(at) = 1
                    /\ \A i \in at :
                          /\ targets[i].path = p
                          /\ targets[i].merge_with =
                                Some(BuildSource(o, targets[i].module,
                                                 targets[i].base_dir, None))
        /\ (/\ Len(args) = 2
            /\ PathSplitext(args[1]).base = PathSplitext(args[2]).base
            /\ {PathSplitext(args[1]).ext, PathSplitext(args[2]).ext} = ExtSet) =>
              create_source_list(<<args[2], args[1]>>, options).targets = targets

\* The overlay was listed before its implementation file, and the run paired them.
C3_Witness ==
    /\ FileRun /\ options.merge_stub_into_src
    /\ Len(args) = 2
    /\ PathSplitext(args[1]).ext = pyiExt
    /\ args[2] = WithSuffix(PathSplitext(args[1]).base, pyExt)
    /\ Len(targets) = 1
    /\ targets[1].merge_with # None

\* Identity resolution reached a directory with a marker file whose basename is
\* no identifier.
InvalidPackageReached ==
    \E d \in resolved : get_init_file(d) # None /\ ~IsIdentifier(SplitTail(d))

\* C4: whenever identity resolution reaches a directory with a marker file and a
\* basename that is no valid identifier, the call raises InvalidSourceList and
\* returns no list, whatever it had collected before.
C4_AllOrNothing ==
    (phase = "done" /\ InvalidPackageReached) =>
        outcome = "raised" /\ reason = "invalid package name"

\* The invalid package was reached in a sub-directory during expansion, after an
\* earlier argument had given a unit.
C4_Witness ==
    /\ phase = "done" /\ InvalidPackageReached
    /\ outcome = "raised"
    /\ targets # <<>>
    /\ \E d \in resolved : ~IsIdentifier(SplitTail(d)) /\ d \notin Range(args)
                              /\ SplitHead(d) \in Range(args)

\* Every unit of the output and every paired overlay.
AllUnits ==
    {targets[i] : i \in 1..Len(targets)}
    \cup {targets[i].merge_with[1] : i \in {j \in 1..Len(targets) : targets[j].merge_with # None}}

ValidModuleId(m) ==
    \A k \in 1..Len(SplitDots(m)) : IsIdentifier(SplitDots(m)[k])

RECURSIVE JoinDots(_)
JoinDots(parts) ==
    IF parts = <<>> THEN <<>>
    ELSE IF Len(parts) = 1 THEN parts[1]
    ELSE parts[1] \o <<".">> \o JoinDots(Tail(parts))

\* The directories of u's path below its base_dir.
PackageDirs(u) ==
    LET dir == SplitHead(u.path)
        bd == u.base_dir[1]
    IN  IF bd = <<Dot>> THEN dir ELSE SubSeq(dir, Len(bd) + 1, Len(dir))

\* C8 as stated: every module id in the output is a non-empty dot-separated
\* sequence of valid identifiers.
C8_AsStated ==
    Returned => \A u \in AllUnits : u.module # None => ValidModuleId(u.module[1])

\* C8 (amended): the module id of a unit for a .py or .pyi file is the dotted join
\* of the names of its package directories below base_dir, each a valid
\* identifier, followed by the file name without its extension unless that is the
\* marker's; the last component is not validated.  A script has no module id, or,
\* with scripts-as-modules, its file name as it is.
C8_PackageComponentsValid ==
    Returned =>
        \A u \in AllUnits :
            IF u.base_dir = None
            THEN u.module = IF options.scripts_are_modules
                            THEN Some(SplitTail(u.path)) ELSE None
            ELSE /\ u.module # None
                 /\ u.base_dir[1] = <<Dot>>
                       \/ /\ Len(u.base_dir[1]) < Len(u.path)
                          /\ SubSeq(u.path, 1, Len(u.base_dir[1])) = u.base_dir[1]
                 /\ \A k \in 1..Len(PackageDirs(u)) : IsIdentifier(PackageDirs(u)[k])
                 /\ u.module[1] =
                       JoinDots(PackageDirs(u)
                                \o (IF strip_py(SplitTail(u.path))[1] = nInit
                                    THEN <<>>
                                    ELSE <<strip_py(SplitTail(u.path))[1]>>))

\* A unit inside a package whose file name is no identifier.
C8_Witness ==
    /\ Returned
    /\ \E u \in AllUnits :
          /\ u.base_dir # None
          /\ PackageDirs(u) # <<>>
          /\ ~ValidModuleId(u.module[1])

FirstIndex(seq, x) == CHOOSE i \in 1..Len(seq) : seq[i] = x /\ \A j \in 1..(i - 1) : seq[j] # x

IsPrimary(p) == \E i \in 1..Len(targets) : targets[i].path = p

\* C9 as stated: the units of explicit file arguments appear in argument order.
C9_AsStated ==
    FileRun =>
        \A p, q \in Range(args) :
            (IsPrimary(p) /\ IsPrimary(q) /\ FirstIndex(args, p) < FirstIndex(args, q)) =>
                FirstIndex([i \in 1..Len(targets) |-> targets[i].path], p)
                    < FirstIndex([i \in 1..Len(targets) |-> targets[i].path], q)

\* C9 (amended): the units of explicit file arguments appear in the order of the
\* partitioned argument list: the unit of a file that is no .pyi file precedes the
\* unit of every .pyi file, and two files of the same group keep their argument
\* order.
C9_PartitionedOrder ==
    FileRun =>
        \A p, q \in Range(args) :
            (IsPrimary(p) /\ IsPrimary(q) /\ p # q) =>
                ((FirstIndex([i \in 1..Len(targets) |-> targets[i].path], p)
                     < FirstIndex([i \in 1..Len(targets) |-> targets[i].path], q))
                 <=> \/ IsOtherPath(p) /\ IsStubPath(q)
                     \/ /\ IsStubPath(p) = IsStubPath(q)
                        /\ FirstIndex(args, p) < FirstIndex(args, q))

\* A .pyi file listed first whose unit comes after that of a later .py file.
C9_Witness ==
    /\ FileRun /\ Len(args) = 2
    /\ IsStubPath(args[1]) /\ IsOtherPath(args[2])
    /\ Len(targets) = 2
    /\ targets[1].path = args[2] /\ targets[2].path = args[1]

\* The positions in targets of the units for files directly in d.
UnitsIn(d) == {i \in 1..Len(targets) : SplitHead(targets[i].path) = d}

\* C10: in a directory run, for every walked package directory the unit of its
\* marker file comes first among the directory's units, with the directory's
\* package prefix as module id; every other unit of the directory has module id
\* prefix + '.' + base name; and every unit's module id and base_dir are what
\* crawl_up gives for its path.
C10_PackageChain ==
    DirRun =>
        /\ \A d \in WalkedDirs :
              get_init_file(d) # None =>
                LET prefix == crawl_up_dir(d, EmptyCache).res
                    first == CHOOSE i \in UnitsIn(d) : \A j \in UnitsIn(d) : i <= j
                IN  /\ UnitsIn(d) # {}
                    /\ Some(targets[first].path) = get_init_file(d)
                    /\ targets[first].module = Some(prefix)
                    /\ \A i \in UnitsIn(d) \ {first} :
                          targets[i].module =
                             Some(prefix \o <<".">>
                                    \o Splitext(SplitTail(targets[i].path)).base)
        /\ \A i \in 1..Len(targets) :
              /\ crawl_up(targets[i].path, EmptyCache).ok
              /\ targets[i].module = Some(crawl_up(targets[i].path, EmptyCache).mod)
              /\ targets[i].base_dir = Some(crawl_up(targets[i].path, EmptyCache).base_dir)

\* A module of a package inside a package: a module id of three components.
C10_Witness ==
    /\ DirRun
    /\ \E i \in 1..Len(targets) :
          /\ Len(SplitDots(targets[i].module[1])) = 3
          /\ Splitext(SplitTail(targets[i].path)).base # nInit

\* The directory arguments whose listing the call reached.
ListedDirs == {d \in Range(args) : IsDir(d)}

\* C13 (as stated): expand_dir ends for every directory tree, also when a
\* listing holds an excluded name: a call that expands a directory returns its
\* units or raises InvalidSourceList, and never loops for ever.
C13_AsStated == (phase = "done" /\ ListedDirs # {}) => outcome # "hang"

\* The result of crawl_up_dir(d) on an empty cache, with no other resolver.
Sequential(d) == crawl_up_dir(d, EmptyCache)

\* The directories from d up to the first one that is no valid package name.
RECURSIVE FailingChain(_)
FailingChain(d) ==
    IF d = <<>> \/ get_init_file(d) = None \/ ~ValidPackageName(SplitTail(d))
    THEN {d}
    ELSE {d} \cup FailingChain(SplitHead(d))

\* C14: with two resolvers on one package_cache, in every interleaving of their
\* lookups and stores, every value stored for a directory is the pair an
\* uncached resolution gives (so an entry never changes), a resolver that
\* raised left no entry for the directories it was resolving, and a resolver's
\* result is that of the uncached resolution.
C14_WriteStable ==
    /\ \A k \in 1..Len(written) :
          /\ Sequential(written[k][1]).ok
          /\ written[k][2] = <<Sequential(written[k][1]).res,
                               Sequential(written[k][1]).base_dir>>
    /\ \A d \in DOMAIN package_cache :
          \E k \in 1..Len(written) : written[k] = <<d, package_cache[d]>>
    /\ \A w \in Resolvers :
          /\ workers[w].status = "raised" =>
                /\ ~Sequential(workers[w].target).ok
                /\ \A d \in FailingChain(workers[w].target) :
                      d \notin DOMAIN package_cache
          /\ workers[w].status = "returned" =>
                /\ Sequential(workers[w].target).ok
                /\ workers[w].result = Some(<<Sequential(workers[w].target).res,
                                              Sequential(workers[w].target).base_dir>>)

\* Both resolvers returned the id of a package in a package, and a directory
\* was stored twice: the two resolutions raced.
C14_Witness ==
    /\ \A w \in Resolvers :
          /\ workers[w].status = "returned"
          /\ Len(SplitDots(workers[w].result[1][1])) = 2
    /\ \E i, j \in 1..Len(written) : i < j /\ written[i][1] = written[j][1]

----------------------------------------------------------------------------
(* Properties of the merge *)

\* The heap MergeFiles was constructed on.
Before == BuildHeap(tree)

RunEnded == merge_outcome \in {"returned", "KeyError", "RuntimeError"}

\* The reported errors that came from the merge_nodes call of the pair <<s, t>>.
ReportsAbout(s, t) == {k \in 1..Len(about) : about[k] = <<s, t>>}

TextOf(k) == errors.error_info[k].message.text

\* The messages that report a mismatch of the two nodes of a pair.
MismatchTexts ==
    {"conflict of src and stub definition",
     "arg conflict of src and stub",
     "conflict of src and stub decorator",
     "conflict of src and stub decorator name",
     "conflict of src and stub decorator argument name",
     "stub should not contain default value"}

\* The trees hold variables, assignments, functions, classes and decorated
\* functions only.
SupportedKindsOnly ==
    \A part \in {tree.src_module, tree.src_class, tree.stub_module, tree.stub_class} :
        \A k \in 1..Len(part) : part[k].kind # "ImportBase"

\* C5 (as stated): run() never raises for trees of the supported node kinds,
\* whatever the two sides declare; it returns and the mismatches are in the sink.
C5_AsStated == (RunEnded /\ SupportedKindsOnly) => merge_outcome = "returned"

\* C6 (as stated): a merge_nodes call that reports a mismatch of its pair leaves
\* the type, the unanalyzed type and the argument kinds of the source node as
\* they were before the call.
C6_AsStated ==
    \A i \in 1..Len(calls) :
        (\E k \in ReportsAbout(calls[i].src, calls[i].stub) : TextOf(k) \in MismatchTexts)
            => calls[i].after = calls[i].before

\* The name is defined by exactly one statement of the body, a function.
DefinedOnce(body, name) ==
    /\ Cardinality({k \in 1..Len(body) : body[k].name = name}) = 1
    /\ \A k \in 1..Len(body) : body[k].name = name => body[k].kind = "FuncDef"

\* The functions both trees define: <<source node, stub node>>, at module level
\* and in class C.
FunctionPairs ==
    (IF DefinedOnce(tree.src_module, "g") /\ DefinedOnce(tree.stub_module, "g")
     THEN {<<DictGet(Before[SrcFile].names, "g"), DictGet(Before[StubFile].names, "g")>>}
     ELSE {})
    \cup
    (IF DefinedOnce(tree.src_class, "f") /\ DefinedOnce(tree.stub_class, "f")
     THEN {<<DictGet(Before[SrcBase + 10 + SymbolOffset].names, "f"),
             DictGet(Before[StubBase + 10 + SymbolOffset].names, "f")>>}
     ELSE {})

ArgConflicts(s, t) ==
    {k \in ReportsAbout(s, t) : TextOf(k) = "arg conflict of src and stub"}

\* C7 (as stated): for a function both trees define, a run reports exactly one
\* argument conflict and leaves the source function as it was when the argument
\* names differ, and reports nothing and copies type, argument kinds and
\* unanalyzed type from the stub when they are equal.
C7_AsStated ==
    merge_outcome = "returned" =>
        \A p \in FunctionPairs :
            IF Before[p[1]].arg_names # Before[p[2]].arg_names
            THEN /\ Cardinality(ArgConflicts(p[1], p[2])) = 1
                 /\ Signature(heap[p[1]]) = Signature(Before[p[1]])
            ELSE /\ ReportsAbout(p[1], p[2]) = {}
                 /\ Signature(heap[p[1]]) = Signature(Before[p[2]])

\* The names the stub class C declares as a nested class and the body of the
\* source class C does not define.
NestedStubOnly ==
    {tree.stub_class[j].name :
        j \in {k \in 1..Len(tree.stub_class) :
                  /\ tree.stub_class[k].kind = "ClassDef"
                  /\ \A i \in 1..Len(tree.src_class) :
                        tree.src_class[i].name # tree.stub_class[k].name}}

\* The ClassDef statements of the stub's class body that declare the name.
NestedDefs(name) ==
    {StubBase + 10 + j : j \in {k \in 1..Len(tree.stub_class) :
                                   /\ tree.stub_class[k].kind = "ClassDef"
                                   /\ tree.stub_class[k].name = name}}

PositionsOf(defs, ids) == {p \in 1..Len(defs) : defs[p] \in ids}

StubIds == {p[1] : p \in BuildTree(StubFile, StubDefs(tree), StubBase)}

\* The errors run number r reported.
ReportedBy(r) ==
    SubSeq(errors.error_info, (IF r = 1 THEN 0 ELSE ended[r - 1]) + 1, ended[r])

AboutBy(r) == SubSeq(about, (IF r = 1 THEN 0 ELSE ended[r - 1]) + 1, ended[r])

\* C12 (as stated): a second run with the same stub tree on the source tree the
\* first run produced reports nothing, except about nodes the first run
\* promoted from the stub.
C12_AsStated ==
    Len(ended) >= 2 =>
        \A k \in 1..Len(AboutBy(2)) : AboutBy(2)[k][1] \in StubIds

\* C12 (amended): every further run reports again exactly what the first run
\* reported, in the same order and at the same positions, and nothing about a
\* promoted node.
C12_Repeats ==
    \A r \in 2..Len(ended) :
        /\ ReportedBy(r) = ReportedBy(1)
        /\ AboutBy(r) = AboutBy(1)
        /\ \A k \in 1..Len(AboutBy(r)) : AboutBy(r)[k][1] \notin StubIds

\* A second run after a first run that promoted a statement and reported.
C12_Witness ==
    /\ Len(ended) = 2
    /\ ended[1] > 0
    /\ Len(Before[SrcFile].defs) < Len(heap[SrcFile].defs)

\* The finished merge_nodes calls on two decorated functions.
DecoratorCalls ==
    {i \in 1..Len(calls) : /\ Before[calls[i].src].kind = "Decorator"
                           /\ Before[calls[i].stub].kind = "Decorator"}

\* A pair of decorators reconciles: same shape, a name reference or a call of a
\* name reference, equal names, equal keyword names, placeholder values only.
Reconciles(l, r) ==
    /\ l.kind = r.kind
    /\ \/ l.kind = "NameExpr" /\ l.name = r.name
       \/ /\ l.kind = "CallExpr"
          /\ l.callee.kind = "NameExpr" /\ r.callee.kind = "NameExpr"
          /\ l.callee.name = r.callee.name
          /\ l.arg_names = r.arg_names
          /\ \A k \in 1..Len(r.args) : r.args[k] = "EllipsisExpr"

AllReconcile(s, t) ==
    /\ Len(Before[s].decorators) = Len(Before[t].decorators)
    /\ \A k \in 1..Len(Before[s].decorators) :
          Reconciles(Before[s].decorators[k], Before[t].decorators[k])

\* merge_nodes ran on the functions under the two decorators.
FuncMerged(s, t) ==
    \E j \in 1..Len(calls) : /\ calls[j].src = Before[s].func
                             /\ calls[j].stub = Before[t].func

\* C15 (as stated): merge_decorators merges the functions under the decorators
\* if and only if every pair of decorators reconciles; otherwise a conflict is
\* reported for the pair and the source function keeps its signature.
C15_AsStated ==
    \A i \in DecoratorCalls :
        LET s == calls[i].src
            t == calls[i].stub
        IN  /\ FuncMerged(s, t) <=> AllReconcile(s, t)
            /\ ~AllReconcile(s, t) =>
                  /\ ReportsAbout(s, t) # {}
                  /\ Signature(heap[Before[s].func]) = Signature(Before[Before[s].func])

\* The names of the stub class body's assignment map and method map
\* (collect_assign_and_funcs on the body of the stub's class C).
StubAssignNames ==
    {tree.stub_class[k].lvalues[1].name :
        k \in {j \in 1..Len(tree.stub_class) :
                  /\ tree.stub_class[j].kind = "AssignmentStmt"
                  /\ Len(tree.stub_class[j].lvalues) = 1
                  /\ tree.stub_class[j].lvalues[1].kind = "NameExpr"}}

StubFuncNames ==
    {tree.stub_class[k].name :
        k \in {j \in 1..Len(tree.stub_class) :
                  tree.stub_class[j].kind \in {"FuncDef", "Decorator"}}}

\* An entry of the source class body takes the name out of the assignment map:
\* a class-level assignment to the name, or an assignment to the attribute in
\* the constructor.
ConsumesAssign(name) ==
    \E k \in 1..Len(tree.src_class) :
        LET d == tree.src_class[k]
        IN  \/ /\ d.kind = "AssignmentStmt"
               /\ Len(d.lvalues) = 1
               /\ d.lvalues[1].kind = "NameExpr"
               /\ d.lvalues[1].name = name
            \/ /\ d.kind = "FuncDef"
               /\ d.name = "__init__"
               /\ \E j \in 1..Len(d.parts) : d.parts[j].attr = name

\* ... out of the method map: a function or a decorated function of the name.
ConsumesFunc(name) ==
    \E k \in 1..Len(tree.src_class) :
        /\ tree.src_class[k].kind \in {"FuncDef", "Decorator"}
        /\ tree.src_class[k].name = name

\* The errors of run r with the text.
ExtraReports(r, text) ==
    {k \in ((IF r = 1 THEN 0 ELSE ended[r - 1]) + 1)..ended[r] : TextOf(k) = text}

SrcTopNames ==
    {SrcDefs(tree)[k].name :
        k \in {j \in 1..Len(SrcDefs(tree)) : SrcDefs(tree)[j].kind = "ClassDef"}}
    \cup UNION {{SrcDefs(tree)[k].lvalues[j].name :
                    j \in {i \in 1..Len(SrcDefs(tree)[k].lvalues) :
                              SrcDefs(tree)[k].lvalues[i].kind = "NameExpr"}} :
                k \in {j \in 1..Len(SrcDefs(tree)) :
                          SrcDefs(tree)[j].kind = "AssignmentStmt"}}

SingleNameAssign(d) ==
    d.kind = "AssignmentStmt" /\ Len(d.lvalues) = 1 /\ d.lvalues[1].kind = "NameExpr"

\* Statement k of the stub module is one only the stub has.
StubOnly(k) ==
    LET d == StubDefs(tree)[k]
    IN  \/ d.kind = "ImportBase"
        \/ d.kind = "ClassDef" /\ d.name \notin SrcTopNames
        \/ SingleNameAssign(d) /\ d.lvalues[1].name \notin SrcTopNames

\* P: the stub-only statements of the stub module, in the stub's order.
Promoted ==
    SelectSeq(Before[StubFile].defs, LAMBDA id : StubOnly((id - StubBase) \div 10))

\* The pairs <<source assignment, stub assignment>> of single-name assignments
\* to one name at the top level of both modules.
SharedAssigns ==
    {<<SrcBase + 10 * i, StubBase + 10 * k>> :
        <<i, k>> \in {p \in (1..Len(SrcDefs(tree))) \X (1..Len(StubDefs(tree))) :
                        /\ SingleNameAssign(SrcDefs(tree)[p[1]])
                        /\ SingleNameAssign(StubDefs(tree)[p[2]])
                        /\ SrcDefs(tree)[p[1]].lvalues[1].name
                              = StubDefs(tree)[p[2]].lvalues[1].name}}

FirstRunReturned == merge_outcome = "returned" /\ Len(ended) = 1

\* C17 (as stated): after run() the source module's statements are P followed
\* by the statements it had, and a stub assignment to a name the source module
\* assigns is not in P: it only gives its type and unanalyzed type to a source
\* assignment of the name.
C17_AsStated ==
    FirstRunReturned =>
        /\ heap[SrcFile].defs = Promoted \o Before[SrcFile].defs
        /\ \A p \in SharedAssigns :
              /\ p[2] \notin Range(heap[SrcFile].defs)
              /\ \E q \in SharedAssigns :
                    /\ q[2] = p[2]
                    /\ heap[q[1]].type = Before[p[2]].type
                    /\ heap[q[1]].unanalyzed_type = Before[p[2]].unanalyzed_type

\* The errors reported without a position of their own: all but the decorator
\* argument name conflict, which names its line.
Unpositioned ==
    {k \in 1..Len(about) :
        TextOf(k) # "conflict of src and stub decorator argument name"}

\* C18 (as stated): an error reported without a position while merge_nodes is
\* active has the line and the column of the source node of the innermost
\* active call, and when run() has ended the current line and column are the
\* initial ones again.
C18_AsStated ==
    /\ \A k \in Unpositioned :
          /\ about[k] # NoPair
          /\ errors.error_info[k].line = Before[about[k][1]].line
          /\ errors.error_info[k].column = Before[about[k][1]].column
    /\ RunEnded => _line = NoLine /\ _column = 0

\* The assignments in the constructors of the source class C:
\* <<assignment node, attribute name>>.
InitAssigns ==
    UNION {{<<PartId(SrcBase + 10 + k, j), tree.src_class[k].parts[j].attr>> :
               j \in 1..Len(tree.src_class[k].parts)} :
           k \in {i \in 1..Len(tree.src_class) :
                     /\ tree.src_class[i].kind = "FuncDef"
                     /\ tree.src_class[i].name = "__init__"}}

\* The stub class body's declaration of the name: the entry of the assignment
\* map, the last single-name assignment to it.
StubAssignOf(name) ==
    LET at == {k \in 1..Len(tree.stub_class) :
                  /\ SingleNameAssign(tree.stub_class[k])
                  /\ tree.stub_class[k].lvalues[1].name = name}
    IN  StubBase + 10 + (CHOOSE k \in at : \A j \in at : j <= k)

\* C19 (as stated): every assignment to an attribute in the source constructor
\* whose name the stub class body declares gets the declaration's type and
\* unanalyzed type, and no "no stub definition for class member" error names
\* the attribute.
C19_AsStated ==
    FirstRunReturned =>
        \A a \in InitAssigns :
            a[2] \in StubAssignNames =>
                /\ heap[a[1]].type = Before[StubAssignOf(a[2])].type
                /\ heap[a[1]].unanalyzed_type = Before[StubAssignOf(a[2])].unanalyzed_type
                /\ \A k \in 1..Len(errors.error_info) :
                      ~ /\ TextOf(k) = "no stub definition for class member"
                        /\ errors.error_info[k].message.names = <<a[2]>>

\* C20 (as stated): with two MergeFiles objects on one sink, constructed and run
\* in any order, every error is recorded with the source file path and the
\* module id given to the object that reported it.
C20_AsStated ==
    \A k \in 1..Len(owner) : errors.error_info[k].file = XPathOf(owner[k])

====
